---------------------------- MODULE Spec2Model ----------------------------
(***************************************************************************)
(* Chat message list of the deep-research web UI: the tolerant JSON        *)
(* decoder (core/utils/json.ts) and the message renderer with its cards    *)
(* (app/chat/page.tsx).                                                    *)
(*                                                                         *)
(* Strings are sequences of one-character strings.  A JSON value is a      *)
(* record [t, s, items, ents]: t is its type, s the characters of a string *)
(* or number, items the elements of an array, ents the [k, v] entries of   *)
(* an object in the order the keys were first set.                         *)
(***************************************************************************)
EXTENDS Integers, Sequences, FiniteSets, TLC

VARIABLES
    json,       \* decoder: the raw argument of parseJSON
    fallback,   \* decoder: the fallback argument of parseJSON
    result,     \* decoder: what parseJSON returned ("none" before the call)
    origin,     \* decoder: how the argument was built (document, cut, wrappers)
    msg,        \* store: the record of the message under observation
    researchIds,    \* store: the ids that start a research session
    openResearchId, \* store: the id of the open research session, or NoId
    editTeamCount,  \* store: the edit-team count
    view,       \* what MessageListItem rendered for the message
    outline,    \* OutlineMessage: mounted, dependencies of its last effect run
    thought,    \* ThoughtBlock: its two state cells, its prop, its last effect run
    list,       \* MessageListView: mounted, pending scroll timers, report states
    planCard,   \* PlanCard: its props, the buttons it drew, the calls it made
    log         \* history: calls, transitions and clicks counted

decVars == <<json, fallback, result, origin>>
storeVars == <<msg, researchIds, openResearchId, editTeamCount>>
uiVars == <<view, outline, thought, list, planCard, log>>
vars == <<json, fallback, result, origin, msg, researchIds, openResearchId,
          editTeamCount, view, outline, thought, list, planCard, log>>

---------------------------------------------------------------------------
(* JSON values *)

JVal(t, s, items, ents) == [t |-> t, s |-> s, items |-> items, ents |-> ents]
JNull == JVal("null", <<>>, <<>>, <<>>)
JTrue == JVal("true", <<>>, <<>>, <<>>)
JFalse == JVal("false", <<>>, <<>>, <<>>)
JUndefined == JVal("undefined", <<>>, <<>>, <<>>)
JStr(s) == JVal("str", s, <<>>, <<>>)
JNum(s) == JVal("num", s, <<>>, <<>>)
JArr(items) == JVal("arr", <<>>, items, <<>>)
JObj(ents) == JVal("obj", <<>>, <<>>, ents)

Keys(o) == [n \in 1..Len(o.ents) |-> o.ents[n].k]
HasKey(o, k) == \E n \in 1..Len(o.ents) : o.ents[n].k = k
Get(o, k) == IF HasKey(o, k)
             THEN o.ents[CHOOSE n \in 1..Len(o.ents) : o.ents[n].k = k].v
             ELSE JUndefined

\* acc[key] = value on a plain object: a key already set keeps its place.
ObjPut(ents, k, v) ==
    IF \E n \in 1..Len(ents) : ents[n].k = k
    THEN [n \in 1..Len(ents) |-> IF ents[n].k = k THEN [k |-> k, v |-> v] ELSE ents[n]]
    ELSE Append(ents, [k |-> k, v |-> v])

---------------------------------------------------------------------------
(* The JSON grammar, read from position i of s.  A read ends "ok" (a       *)
(* complete value, i the next position), "part" (the input ended inside    *)
(* the value: v is the value as far as it got), "none" (the input ended    *)
(* before a usable value, an incomplete token being dropped) or "err" (a   *)
(* token that starts no JSON value).                                       *)

IsWs(c) == c \in {" ", "\n"}
IsDigit(c) == c \in {"0", "1", "2", "3", "4", "5", "6", "7", "8", "9"}

RECURSIVE SkipWs(_, _)
SkipWs(s, i) == IF i <= Len(s) /\ IsWs(s[i]) THEN SkipWs(s, i + 1) ELSE i

Read(st, v, i) == [st |-> st, v |-> v, i |-> i]

StartsWith(s, i, w) ==
    /\ i + Len(w) - 1 <= Len(s)
    /\ SubSeq(s, i, i + Len(w) - 1) = w

RECURSIVE FindQuote(_, _)
FindQuote(s, i) ==
    IF i > Len(s) THEN 0
    ELSE IF s[i] = "\"" THEN i
    ELSE FindQuote(s, i + 1)

ParseStringAt(s, j) ==
    LET k == FindQuote(s, j + 1) IN
    IF k = 0
    THEN Read("part", JStr(SubSeq(s, j + 1, Len(s))), Len(s) + 1)
    ELSE Read("ok", JStr(SubSeq(s, j + 1, k - 1)), k + 1)

LitTrue == <<"t", "r", "u", "e">>
LitFalse == <<"f", "a", "l", "s", "e">>
LitNull == <<"n", "u", "l", "l">>

ParseLiteralAt(s, j) ==
    LET rest == SubSeq(s, j, Len(s)) IN
    IF StartsWith(s, j, LitTrue) THEN Read("ok", JTrue, j + 4)
    ELSE IF StartsWith(s, j, LitFalse) THEN Read("ok", JFalse, j + 5)
    ELSE IF StartsWith(s, j, LitNull) THEN Read("ok", JNull, j + 4)
    ELSE IF \E w \in {LitTrue, LitFalse, LitNull} :
                Len(rest) < Len(w) /\ rest = SubSeq(w, 1, Len(rest))
    THEN Read("none", JNull, Len(s) + 1)
    ELSE Read("err", JNull, j)

RECURSIVE DigitsEnd(_, _)
DigitsEnd(s, i) == IF i <= Len(s) /\ IsDigit(s[i]) THEN DigitsEnd(s, i + 1) ELSE i

ParseNumberAt(s, j) ==
    LET d == IF s[j] = "-" THEN j + 1 ELSE j
        e == DigitsEnd(s, d)
    IN  IF e = d
        THEN IF d > Len(s) THEN Read("none", JNull, d) ELSE Read("err", JNull, d)
        ELSE IF s[d] = "0" /\ e > d + 1 THEN Read("err", JNull, d)
        ELSE Read("ok", JNum(SubSeq(s, j, e - 1)), e)

RECURSIVE ParseValue(_, _), ArrLoop(_, _, _, _), ObjLoop(_, _, _, _)
ParseValue(s, i) ==
    LET j == SkipWs(s, i) IN
    IF j > Len(s) THEN Read("none", JNull, j)
    ELSE IF s[j] = "\"" THEN ParseStringAt(s, j)
    ELSE IF s[j] = "{" THEN ObjLoop(s, j + 1, <<>>, TRUE)
    ELSE IF s[j] = "[" THEN ArrLoop(s, j + 1, <<>>, TRUE)
    ELSE IF IsDigit(s[j]) \/ s[j] = "-" THEN ParseNumberAt(s, j)
    ELSE IF s[j] \in {"t", "f", "n"} THEN ParseLiteralAt(s, j)
    ELSE Read("err", JNull, j)

\* The elements of an array after "[" or ",": an unterminated array is closed
\* with the elements it has.
ArrLoop(s, i, acc, first) ==
    LET j == SkipWs(s, i) IN
    IF j > Len(s) THEN Read("part", JArr(acc), j)
    ELSE IF first /\ s[j] = "]" THEN Read("ok", JArr(acc), j + 1)
    ELSE LET r == ParseValue(s, j) IN
         IF r.st = "err" THEN Read("err", JNull, r.i)
         ELSE IF r.st = "none" THEN Read("part", JArr(acc), r.i)
         ELSE IF r.st = "part" THEN Read("part", JArr(Append(acc, r.v)), r.i)
         ELSE LET k == SkipWs(s, r.i) IN
              IF k > Len(s) THEN Read("part", JArr(Append(acc, r.v)), k)
              ELSE IF s[k] = "," THEN ArrLoop(s, k + 1, Append(acc, r.v), FALSE)
              ELSE IF s[k] = "]" THEN Read("ok", JArr(Append(acc, r.v)), k + 1)
              ELSE Read("err", JNull, k)

\* The members of an object after "{" or ",": an unterminated object is closed
\* with the members it has, a key without its value is dropped.
ObjLoop(s, i, acc, first) ==
    LET j == SkipWs(s, i) IN
    IF j > Len(s) THEN Read("part", JObj(acc), j)
    ELSE IF first /\ s[j] = "}" THEN Read("ok", JObj(acc), j + 1)
    ELSE IF s[j] # "\"" THEN Read("err", JNull, j)
    ELSE LET key == ParseStringAt(s, j)
             c == SkipWs(s, key.i)
         IN  IF key.st = "part" \/ c > Len(s) THEN Read("part", JObj(acc), Len(s) + 1)
             ELSE IF s[c] # ":" THEN Read("err", JNull, c)
             ELSE LET r == ParseValue(s, c + 1) IN
                  IF r.st = "err" THEN Read("err", JNull, r.i)
                  ELSE IF r.st = "none" THEN Read("part", JObj(acc), r.i)
                  ELSE IF r.st = "part"
                  THEN Read("part", JObj(ObjPut(acc, key.v.s, r.v)), r.i)
                  ELSE LET k == SkipWs(s, r.i)
                           put == ObjPut(acc, key.v.s, r.v)
                       IN  IF k > Len(s) THEN Read("part", JObj(put), k)
                           ELSE IF s[k] = "," THEN ObjLoop(s, k + 1, put, FALSE)
                           ELSE IF s[k] = "}" THEN Read("ok", JObj(put), k + 1)
                           ELSE Read("err", JNull, k)

Threw == [threw |-> TRUE, v |-> JUndefined]
Returned(v) == [threw |-> FALSE, v |-> v]

\* parse of best-effort-json-parser: any prefix of a JSON document decodes to
\* the structure read so far; a token that is no JSON throws.
parse(s) ==
    LET End(r) ==
            IF r.st = "part" THEN Returned(r.v)
            ELSE IF r.st = "ok" /\ SkipWs(s, r.i) > Len(s) THEN Returned(r.v)
            ELSE Threw
    IN  End(ParseValue(s, 1))

\* JSON.parse: the whole text is one complete JSON value, or a SyntaxError.
JSONparse(s) ==
    LET End(r) == IF r.st = "ok" /\ SkipWs(s, r.i) > Len(s) THEN Returned(r.v) ELSE Threw
    IN  End(ParseValue(s, 1))

---------------------------------------------------------------------------
(* parseJSON (core/utils/json.ts) *)

\* The backquote, which a string of this notation cannot hold.
BQ == "~"

FenceJson == <<BQ, BQ, BQ, "j", "s", "o", "n">>
FenceJs == <<BQ, BQ, BQ, "j", "s">>
FenceTs == <<BQ, BQ, BQ, "t", "s">>
FencePlaintext == <<BQ, BQ, BQ, "p", "l", "a", "i", "n", "t", "e", "x", "t">>
FenceBare == <<BQ, BQ, BQ>>

RECURSIVE WsEndBack(_, _)
\* the last position <= i that is not whitespace (0 when there is none)
WsEndBack(s, i) == IF i >= 1 /\ IsWs(s[i]) THEN WsEndBack(s, i - 1) ELSE i

\* String.prototype.trim
Trim(s) == SubSeq(s, SkipWs(s, 1), WsEndBack(s, Len(s)))

\* s.replace(/^<fence>\s*/, "")
ReplaceLeading(s, fence) ==
    IF StartsWith(s, 1, fence)
    THEN SubSeq(s, SkipWs(s, Len(fence) + 1), Len(s))
    ELSE s

\* s.replace(/\s*<fence>$/, "")
ReplaceTrailing(s) ==
    IF Len(s) >= 3 /\ SubSeq(s, Len(s) - 2, Len(s)) = FenceBare
    THEN SubSeq(s, 1, WsEndBack(s, Len(s) - 3))
    ELSE s

\* The chain of replace calls, in the order of the source.
LeadingStages == <<FenceJson, FenceJs, FenceTs, FencePlaintext, FenceBare>>

RECURSIVE StripLeading(_, _)
StripLeading(s, n) ==
    IF n > Len(LeadingStages) THEN s
    ELSE StripLeading(ReplaceLeading(s, LeadingStages[n]), n + 1)

RECURSIVE LeadingRemoved(_, _)
\* how many of the leading replace calls removed a fence
LeadingRemoved(s, n) ==
    IF n > Len(LeadingStages) THEN 0
    ELSE (IF StartsWith(s, 1, LeadingStages[n]) THEN 1 ELSE 0)
         + LeadingRemoved(ReplaceLeading(s, LeadingStages[n]), n + 1)

StripFences(s) == ReplaceTrailing(StripLeading(Trim(s), 1))

NullArg == [kind |-> "null", s |-> <<>>]
UndefinedArg == [kind |-> "undefined", s |-> <<>>]
StrArg(s) == [kind |-> "str", s |-> s]

\* !json
Falsy(arg) == arg.kind # "str" \/ arg.s = <<>>

\* What a call returned: kind is "fallback" (the fallback itself), "parsed" (the
\* parser's value) or "throw"; parsed tells whether the parser was called, and raw
\* is the text it was handed.
Ret(kind, v, parsed, raw) == [kind |-> kind, v |-> v, parsed |-> parsed, raw |-> raw]
NoResult == Ret("none", JUndefined, FALSE, <<>>)

\* parseJSON with the try/catch left out.
parseJSON_NoCatch(arg, fb) ==
    LET Caught(raw, r) ==
            IF r.threw THEN Ret("throw", JUndefined, TRUE, raw)
            ELSE Ret("parsed", r.v, TRUE, raw)
        Try(raw) == Caught(raw, parse(raw))
    IN  IF Falsy(arg) THEN Ret("fallback", fb, FALSE, <<>>)
        ELSE Try(StripFences(arg.s))

\* parseJSON with the !json guard left out: null.trim() throws inside the try.
parseJSON_NoGuard(arg, fb) ==
    LET Caught(raw, r) ==
            IF r.threw THEN Ret("fallback", fb, TRUE, raw)
            ELSE Ret("parsed", r.v, TRUE, raw)
        Try(raw) == Caught(raw, parse(raw))
    IN  IF arg.kind # "str" THEN Ret("fallback", fb, FALSE, <<>>)
        ELSE Try(StripFences(arg.s))

\* parseJSON calling the strict JSON.parse.
parseJSON_Strict(arg, fb) ==
    LET Caught(raw, r) ==
            IF r.threw THEN Ret("fallback", fb, TRUE, raw)
            ELSE Ret("parsed", r.v, TRUE, raw)
        Try(raw) == Caught(raw, JSONparse(raw))
    IN  IF Falsy(arg) THEN Ret("fallback", fb, FALSE, <<>>)
        ELSE Try(StripFences(arg.s))

parseJSON(arg, fb) ==
    LET Caught(raw, r) ==
            IF r.threw THEN Ret("fallback", fb, TRUE, raw)
            ELSE Ret("parsed", r.v, TRUE, raw)
        Try(raw) == Caught(raw, parse(raw))
    IN  IF Falsy(arg) THEN Ret("fallback", fb, FALSE, <<>>)
        ELSE Try(StripFences(arg.s))

---------------------------------------------------------------------------
(* Message contents and decoder arguments the model draws from *)

\* {"title":"Plan","steps":[{"title":"Step 1"}]}
DocPlan ==
    << "{", "\"", "t", "i", "t", "l", "e", "\"", ":", "\"", "P", "l", "a", "n",
       "\"", ",", "\"", "s", "t", "e", "p", "s", "\"", ":", "[", "{", "\"", "t",
       "i", "t", "l", "e", "\"", ":", "\"", "S", "t", "e", "p", " ", "1", "\"",
       "}", "]", "}" >>
\* {"a":1}
DocA == <<"{", "\"", "a", "\"", ":", "1", "}">>
\* {"t":"a b","x":"c<fence>"}
DocNote ==
    << "{", "\"", "t", "\"", ":", "\"", "a", " ", "b", "\"", ",", "\"", "x", "\"",
       ":", "\"", "c", BQ, BQ, BQ, "\"", "}" >>
\* {"2":"x","b":"y","1":"z","b":"w"}
DocEval ==
    << "{", "\"", "2", "\"", ":", "\"", "x", "\"", ",", "\"", "b", "\"", ":", "\"",
       "y", "\"", ",", "\"", "1", "\"", ":", "\"", "z", "\"", ",", "\"", "b", "\"",
       ":", "\"", "w", "\"", "}" >>
\* {"title":"O","sections":[{},{},{}]}
DocOutline ==
    << "{", "\"", "t", "i", "t", "l", "e", "\"", ":", "\"", "O", "\"", ",", "\"",
       "s", "e", "c", "t", "i", "o", "n", "s", "\"", ":", "[", "{", "}", ",",
       "{", "}", ",", "{", "}", "]", "}" >>
\* null
DocNull == <<"n", "u", "l", "l">>
\* not json at all
DocText ==
    << "n", "o", "t", " ", "j", "s", "o", "n", " ", "a", "t", " ", "a", "l",
       "l" >>
\* {"a" 1}
DocBadObj == <<"{", "\"", "a", "\"", " ", "1", "}">>
\* {"title":"P","audioUrl":"u"}
DocPodcast ==
    << "{", "\"", "t", "i", "t", "l", "e", "\"", ":", "\"", "P", "\"", ",", "\"",
       "a", "u", "d", "i", "o", "U", "r", "l", "\"", ":", "\"", "u", "\"", "}" >>


DocNames == {"plan", "a", "note", "eval", "outline", "null", "text", "badobj", "podcast"}

Doc(name) ==
    CASE name = "plan" -> DocPlan
      [] name = "a" -> DocA
      [] name = "note" -> DocNote
      [] name = "eval" -> DocEval
      [] name = "outline" -> DocOutline
      [] name = "null" -> DocNull
      [] name = "text" -> DocText
      [] name = "badobj" -> DocBadObj
      [] name = "podcast" -> DocPodcast

\* The documents that are one complete JSON object.
ObjectDocs == {"plan", "a", "note", "eval", "outline", "podcast"}

NL == <<"\n">>

\* What a model may put before and after the document.
Prefixes ==
    { <<>>, <<" ">>, FenceJson \o NL, FenceJs \o NL, FenceTs \o NL,
      FencePlaintext \o NL, FenceBare \o NL, FenceJson \o NL \o FenceBare \o NL,
      FenceBare \o <<"J", "S", "O", "N">> \o NL }
Suffixes == { <<>>, NL \o FenceBare, NL \o FenceBare \o NL \o FenceBare \o NL }

\* {x: 1}, {}, null
Fallbacks == { JObj(<<[k |-> <<"x">>, v |-> JNum(<<"1">>)]>>), JObj(<<>>), JNull }

---------------------------------------------------------------------------
(* The message store, as the renderer reads it (page.tsx lines 84-94) *)

NoId == "none"

\* The agent tags MessageListItem lists, one it does not list, and no tag.
ListedAgents ==
    { "coordinator", "planner", "podcast", "feedback_handler", "generate_questions",
      "reporter", "outline", "editor_team", "evaluator" }
Agents == ListedAgents \cup {"researcher", "untagged"}

\* A message record; its content is the first cut characters of its document.
Message(role, agent, doc, cut, streaming, reasoning) ==
    [ id |-> "m", role |-> role, agent |-> agent, doc |-> doc, cut |-> cut,
      isStreaming |-> streaming, reasoningContent |-> reasoning ]
Content(m) == SubSeq(Doc(m.doc), 1, m.cut)
NoMsg == Message("assistant", "untagged", "a", 0, FALSE, <<>>)

\* setEditTeamCount(n) of the store.
setEditTeamCount(n) == editTeamCount' = n

\* openResearch(id), closeResearch() of the store.
openResearch(id) == openResearchId' = id
closeResearch == openResearchId' = NoId

---------------------------------------------------------------------------
(* JavaScript on decoded values *)

Nullish(v) == v.t \in {"null", "undefined"}

\* v && ..., v ? ... : ...
Truthy(v) ==
    CASE v.t \in {"null", "undefined", "false"} -> FALSE
      [] v.t = "str" -> v.s # <<>>
      [] v.t = "num" -> v.s \notin {<<"0">>, <<"-", "0">>}
      [] OTHER -> TRUE

\* v.k where v is not null or undefined
Prop(v, k) == IF v.t = "obj" THEN Get(v, k) ELSE JUndefined

\* v.map(f) throws unless v is an array; f reads a property of every element.
MapThrows(v) == v.t # "arr" \/ \E n \in 1..Len(v.items) : Nullish(v.items[n])

\* A canonical array index, which an object enumerates before its other keys.
IsIndexKey(k) ==
    /\ Len(k) >= 1
    /\ \A n \in 1..Len(k) : IsDigit(k[n])
    /\ (k[1] = "0" => Len(k) = 1)

DigitVal(c) ==
    CASE c = "0" -> 0 [] c = "1" -> 1 [] c = "2" -> 2 [] c = "3" -> 3 [] c = "4" -> 4
      [] c = "5" -> 5 [] c = "6" -> 6 [] c = "7" -> 7 [] c = "8" -> 8 [] c = "9" -> 9

RECURSIVE NumVal(_)
NumVal(k) == IF k = <<>> THEN 0
             ELSE 10 * NumVal(SubSeq(k, 1, Len(k) - 1)) + DigitVal(k[Len(k)])

DigitChars == <<"0", "1", "2", "3", "4", "5", "6", "7", "8", "9">>

RECURSIVE IndexKey(_)
\* String(n)
IndexKey(n) == IF n < 10 THEN <<DigitChars[n + 1]>>
               ELSE Append(IndexKey(n \div 10), DigitChars[(n % 10) + 1])

IndexBefore(a, b) == NumVal(a) < NumVal(b)
NotIndexKey(k) == ~IsIndexKey(k)

\* The keys Object.entries(v) yields, in its order: the index keys ascending,
\* then the other keys in the order they were first set.
OwnKeys(v) ==
    CASE v.t = "obj" ->
             SortSeq(SelectSeq(Keys(v), IsIndexKey), IndexBefore)
                 \o SelectSeq(Keys(v), NotIndexKey)
      [] v.t = "str" -> [n \in 1..Len(v.s) |-> IndexKey(n - 1)]
      [] v.t = "arr" -> [n \in 1..Len(v.items) |-> IndexKey(n - 1)]
      [] OTHER -> <<>>

Title == <<"t", "i", "t", "l", "e">>
Steps == <<"s", "t", "e", "p", "s">>
Sections == <<"s", "e", "c", "t", "i", "o", "n", "s">>
Error == <<"e", "r", "r", "o", "r">>

EmptyObject == JObj(<<>>)

---------------------------------------------------------------------------
(* The cards (page.tsx).  A card's render is a record: threw tells whether *)
(* the render threw, kind names what it drew.                              *)

Drawn(kind, blocks) == [threw |-> FALSE, kind |-> kind, blocks |-> blocks]
RenderThrew == [threw |-> TRUE, kind |-> "none", blocks |-> <<>>]

HasMainContent(m) == Content(m) # <<>> /\ Trim(Content(m)) # <<>>

PlanCard(m) ==
    LET Card(plan) ==
            IF ~HasMainContent(m) THEN Drawn("plan", <<>>)
            ELSE IF Nullish(plan) THEN RenderThrew
            ELSE IF Truthy(Prop(plan, Steps)) /\ MapThrows(Prop(plan, Steps))
            THEN RenderThrew
            ELSE Drawn("plan", <<>>)
    IN  Card(parseJSON(StrArg(Content(m)), EmptyObject).v)

PodcastCard(m) ==
    LET Card(parsed) ==
            LET data == parsed.v
                title == IF Nullish(data) THEN JUndefined ELSE Prop(data, Title)
                hasError == ~Nullish(data) /\ Prop(data, Error).t # "undefined"
            IN  IF parsed.threw THEN RenderThrew
                ELSE IF ~hasError /\ ~m.isStreaming /\ ~Nullish(title) /\ title.t # "str"
                THEN RenderThrew
                ELSE Drawn("podcast", <<>>)
    IN  Card(JSONparse(Content(m)))

OutlineMessage(m) ==
    LET Card(o) ==
            IF Nullish(o) THEN RenderThrew
            ELSE IF Truthy(Prop(o, Sections)) /\ MapThrows(Prop(o, Sections))
            THEN RenderThrew
            ELSE Drawn("outline", <<>>)
    IN  Card(parseJSON(StrArg(Content(m)), EmptyObject).v)

EditorTeamMessage(m) ==
    LET Card(parsedData) ==
            LET structured ==
                    /\ Truthy(parsedData)
                    /\ parsedData.t \in {"obj", "arr"}
                    /\ \/ Prop(parsedData, Title).t # "undefined"
                       \/ Prop(parsedData, Steps).t # "undefined"
            IN  IF ~structured THEN Drawn("bubble", <<>>)
                ELSE IF Truthy(Prop(parsedData, Steps))
                        /\ MapThrows(Prop(parsedData, Steps))
                THEN RenderThrew
                ELSE Drawn("editor_team", <<>>)
    IN  Card(parseJSON(StrArg(Content(m)), JNull).v)

\* evaluationItems: one item per entry of Object.entries(evaluationData).
EvaluationItems(data) == OwnKeys(data)

EvaluatorMessage(m) ==
    LET Card(evaluationData) ==
            IF Nullish(evaluationData) THEN RenderThrew
            ELSE Drawn("evaluator", EvaluationItems(evaluationData))
    IN  Card(parseJSON(StrArg(Content(m)), EmptyObject).v)

ResearchCard(m) ==
    LET Card(decoded) == IF Nullish(decoded) THEN RenderThrew ELSE Drawn("research", <<>>)
    IN  Card(parseJSON(StrArg(Content(m)), JObj(<<[k |-> Title, v |-> JStr(<<>>)]>>)).v)

\* What MessageListItem returns: a list item holding a card or a bubble, null,
\* or the exception its render threw.
View(kind, card, blocks) == [kind |-> kind, card |-> card, blocks |-> blocks]
NoView == View("none", "none", <<>>)
NullView == View("null", "none", <<>>)

Item(r) == IF r.threw THEN View("throw", "none", <<>>) ELSE View("li", r.kind, r.blocks)

MessageListItem(m, ids) ==
    LET startOfResearch == m.id \in ids IN
    IF ~(m.role = "user" \/ m.agent \in ListedAgents \/ startOfResearch) THEN NullView
    ELSE IF m.agent = "planner" THEN Item(PlanCard(m))
    ELSE IF m.agent = "podcast" THEN Item(PodcastCard(m))
    ELSE IF m.agent = "outline"
    THEN IF Content(m) # <<>> THEN Item(OutlineMessage(m)) ELSE NullView
    ELSE IF m.agent = "editor_team"
    THEN IF Content(m) # <<>> THEN Item(EditorTeamMessage(m)) ELSE NullView
    ELSE IF m.agent = "evaluator"
    THEN IF Content(m) # <<>> THEN Item(EvaluatorMessage(m)) ELSE NullView
    ELSE IF startOfResearch THEN Item(ResearchCard(m))
    ELSE IF Content(m) # <<>> THEN View("li", "bubble", <<>>) ELSE NullView

---------------------------------------------------------------------------
(* States of the parts a specification leaves alone *)

NoOrigin == [doc |-> "a", cut |-> 0, pre |-> <<>>, suf |-> <<>>]
DecoderIdle ==
    /\ json = NullArg
    /\ fallback = JNull
    /\ result = NoResult
    /\ origin = NoOrigin

NoDeps == [isStreaming |-> FALSE, ref |-> -1, val |-> JUndefined]
OutlineUnmounted == [mounted |-> FALSE, crashed |-> FALSE, deps |-> NoDeps]
ThoughtUnmounted ==
    [ mounted |-> FALSE, isOpen |-> TRUE, hasAutoCollapsed |-> FALSE,
      hasMainContent |-> FALSE, deps |-> <<>> ]
Logged(l, act) == [l EXCEPT !.act = act]
ListIdle == [mounted |-> FALSE, timers |-> 0, scrolls |-> 0]
NoLog == [calls |-> 0, transitions |-> 0, collapses |-> 0, clicks |-> 0,
          clicked |-> NoId, before |-> NoId, act |-> "none"]

\* An option of an interrupt message, and the interruptMessage prop: absent
\* (null or undefined), or a message with or without an options list.
Option(text, value) == [text |-> text, value |-> value]
NoOption == Option("", "")
NoInterrupt == [present |-> FALSE, hasOptions |-> FALSE, options |-> <<>>]

\* A call of onSendMessage(text, {interruptFeedback}); the text is its pieces.
Sent(text, interruptFeedback) == [text |-> text, interruptFeedback |-> interruptFeedback]
NoSent == Sent(<<>>, "")

PlanIdle ==
    [ mounted |-> FALSE, interrupt |-> NoInterrupt, waitForFeedback |-> FALSE,
      onSendMessage |-> FALSE, onFeedback |-> FALSE, buttons |-> <<>>,
      clicked |-> NoOption, sends |-> 0, sent |-> NoSent,
      feedbacks |-> 0, feedback |-> NoOption ]

---------------------------------------------------------------------------
(* The decoder on its own: one call of parseJSON on an argument drawn from *)
(* the documents, cut at any point and wrapped.                            *)

Text(o) == o.pre \o SubSeq(Doc(o.doc), 1, o.cut) \o o.suf

DecodeInit ==
    /\ msg = NoMsg
    /\ researchIds = {}
    /\ openResearchId = NoId
    /\ editTeamCount = 0
    /\ view = NoView
    /\ outline = OutlineUnmounted
    /\ thought = ThoughtUnmounted
    /\ list = ListIdle
    /\ log = NoLog
    /\ planCard = PlanIdle
    /\ result = NoResult
    /\ fallback \in Fallbacks
    /\ \/ \E d \in DocNames, p \in Prefixes, q \in Suffixes :
            \E c \in 0..Len(Doc(d)) :
              /\ origin = [doc |-> d, cut |-> c, pre |-> p, suf |-> q]
              /\ json = StrArg(Text(origin))
       \/ /\ origin = [doc |-> "a", cut |-> 0, pre |-> <<>>, suf |-> <<>>]
          /\ json \in {NullArg, UndefinedArg}

Decode ==
    /\ result = NoResult
    /\ result' = parseJSON(json, fallback)
    /\ UNCHANGED <<json, fallback, origin, storeVars, uiVars>>

DecodeNext == Decode

DecodeSpec == DecodeInit /\ [][DecodeNext]_vars

---------------------------------------------------------------------------
(* ThoughtBlock (page.tsx lines 380-487): the reasoning panel *)

MaxChanges == 5
MaxToggles == 4

\* The effect with its latch test left out.
ThoughtEffect_NoLatch(th) ==
    IF th.hasMainContent
    THEN [th EXCEPT !.isOpen = FALSE, !.hasAutoCollapsed = TRUE]
    ELSE th

\* The body of the effect: close the panel the first time main content shows.
ThoughtEffect(th) ==
    IF th.hasMainContent /\ ~th.hasAutoCollapsed
    THEN [th EXCEPT !.isOpen = FALSE, !.hasAutoCollapsed = TRUE]
    ELSE th

ThoughtDeps(th) == <<th.hasMainContent, th.hasAutoCollapsed>>

RECURSIVE ThoughtCommit(_, _)
\* A render is committed: the effect runs when a dependency changed since its
\* last run (or on mount), and a state it sets renders again.  n counts the
\* runs that called setIsOpen(false).
ThoughtCommit(th, n) ==
    IF th.deps = ThoughtDeps(th) THEN [th |-> th, forced |-> n]
    ELSE LET after == ThoughtEffect(th) IN
         ThoughtCommit([after EXCEPT !.deps = ThoughtDeps(th)],
                       n + (IF after.isOpen = th.isOpen /\ after.hasAutoCollapsed = th.hasAutoCollapsed
                            THEN 0 ELSE 1))

ThoughtInit ==
    /\ DecoderIdle
    /\ msg = NoMsg
    /\ researchIds = {}
    /\ openResearchId = NoId
    /\ editTeamCount = 0
    /\ view = NoView
    /\ outline = OutlineUnmounted
    /\ \E h \in BOOLEAN : thought = [ThoughtUnmounted EXCEPT !.hasMainContent = h]
    /\ list = ListIdle
    /\ log = NoLog
    /\ planCard = PlanIdle

ThoughtRendered(th, act) ==
    LET c == ThoughtCommit(th, 0) IN
    /\ thought' = c.th
    /\ log' = [log EXCEPT !.act = act,
                          !.collapses = @ + c.forced,
                          !.transitions = @ + (IF act = "change" THEN 1 ELSE 0),
                          !.clicks = @ + (IF act = "toggle" THEN 1 ELSE 0)]
    /\ UNCHANGED <<decVars, storeVars, view, outline, list, planCard>>

\* The panel is mounted: useState(true), useState(false), then the effect.
ThoughtMount ==
    /\ ~thought.mounted
    /\ ThoughtRendered([thought EXCEPT !.mounted = TRUE], "mount")

\* The parent renders the panel with the other value of hasMainContent.
MainContentChange ==
    /\ thought.mounted
    /\ log.transitions < MaxChanges
    /\ ThoughtRendered([thought EXCEPT !.hasMainContent = ~@], "change")

\* The user clicks the trigger: onOpenChange(!open) is setIsOpen.
UserToggle ==
    /\ thought.mounted
    /\ log.clicks < MaxToggles
    /\ ThoughtRendered([thought EXCEPT !.isOpen = ~@], "toggle")

ThoughtNext == ThoughtMount \/ MainContentChange \/ UserToggle

ThoughtSpec == ThoughtInit /\ [][ThoughtNext]_vars

---------------------------------------------------------------------------
(* OutlineMessage (page.tsx lines 821-891) under a streaming message *)

MaxCalls == 3

\* The documents an outline message streams.
OutlineDocs == {"outline", "plan", "null"}

OutlineOf(m) == parseJSON(StrArg(Content(m)), EmptyObject).v

\* [message.isStreaming, outline.sections]: useMemo keeps the decoded outline
\* while the content is the same string, so an array is the same array until
\* the content changes; any other value is compared as it is.
OutlineDeps(m) ==
    LET Deps(sections) ==
            [ isStreaming |-> m.isStreaming,
              ref |-> IF sections.t \in {"arr", "obj"} THEN m.cut ELSE -1,
              val |-> IF sections.t \in {"arr", "obj"} THEN JUndefined ELSE sections ]
    IN  Deps(Prop(OutlineOf(m), Sections))

\* The effect without its dependency array: it runs after every render.
OutlineEffectDue_EveryRender(o, m) == TRUE

\* Whether the effect runs after this render: on mount, or when a dependency
\* differs from its last run.
OutlineEffectDue(o, m) == ~o.mounted \/ o.deps # OutlineDeps(m)

\* The effect's call of setEditTeamCount, if it makes one.
OutlineEffectCalls(m) ==
    ~m.isStreaming /\ Truthy(Prop(OutlineOf(m), Sections))

SectionsLength(m) == Len(Prop(OutlineOf(m), Sections).items)

\* OutlineMessage mounted under any list item, whatever card it holds.
OutlineMounted_AnyCard(v) == v.kind = "li"

\* OutlineMessage is mounted by the outline branch of MessageListItem only.
OutlineMounted(v) == v.kind = "li" /\ v.card = "outline"

\* MessageListItem renders message m, and the effect of OutlineMessage runs.
OutlineRendered(m, act, finished) ==
    LET Commit(v, effectDue, effectCalls, deps, n) ==
            LET shown == OutlineMounted(v)
                due == shown /\ effectDue
                calls == due /\ effectCalls
            IN  /\ view' = v
                /\ outline' =
                      IF v.kind = "throw" THEN [OutlineUnmounted EXCEPT !.crashed = TRUE]
                      ELSE IF ~shown THEN OutlineUnmounted
                      ELSE [ mounted |-> TRUE, crashed |-> FALSE,
                             deps |-> IF due THEN deps ELSE outline.deps ]
                /\ IF calls THEN setEditTeamCount(n) ELSE UNCHANGED editTeamCount
                /\ log' = [log EXCEPT
                             !.act = act,
                             !.calls = @ + (IF calls THEN 1 ELSE 0),
                             !.transitions =
                                 @ + (IF finished /\ outline.mounted THEN 1 ELSE 0)]
    IN  Commit(MessageListItem(m, researchIds), OutlineEffectDue(outline, m),
               OutlineEffectCalls(m), OutlineDeps(m), SectionsLength(m))

OutlineInit ==
    /\ DecoderIdle
    /\ \E d \in OutlineDocs :
         \/ \E c \in 0..Len(Doc(d)) : msg = Message("assistant", "outline", d, c, TRUE, <<>>)
         \/ msg = Message("assistant", "outline", d, Len(Doc(d)), FALSE, <<>>)
    /\ researchIds = {}
    /\ openResearchId = NoId
    /\ editTeamCount = 0
    /\ view = NoView
    /\ outline = OutlineUnmounted
    /\ thought = ThoughtUnmounted
    /\ list = ListIdle
    /\ log = NoLog
    /\ planCard = PlanIdle

OutlineFrame == UNCHANGED <<decVars, researchIds, openResearchId, thought, planCard>>

\* The message list is created and renders the message for the first time.
ListMount ==
    /\ ~list.mounted
    /\ ~outline.crashed
    /\ log.calls < MaxCalls
    /\ list' = [list EXCEPT !.mounted = TRUE]
    /\ OutlineRendered(msg, "mount", FALSE)
    /\ UNCHANGED msg
    /\ OutlineFrame

\* The message list is torn down.
ListUnmount ==
    /\ list.mounted
    /\ list' = [list EXCEPT !.mounted = FALSE]
    /\ outline' = OutlineUnmounted
    /\ view' = NoView
    /\ log' = Logged(log, "unmount")
    /\ UNCHANGED <<msg, editTeamCount>>
    /\ OutlineFrame

\* The store appends a chunk to the streaming message.
Chunk ==
    /\ msg.isStreaming
    /\ \E c \in (msg.cut + 1)..Len(Doc(msg.doc)) :
         /\ msg' = [msg EXCEPT !.cut = c]
         /\ IF list.mounted
            THEN OutlineRendered(msg', "chunk", FALSE)
            ELSE UNCHANGED <<view, outline, editTeamCount, log>>
    /\ UNCHANGED list
    /\ OutlineFrame

\* The store clears the streaming flag of the message.
Finish ==
    /\ msg.isStreaming
    /\ msg' = [msg EXCEPT !.isStreaming = FALSE]
    /\ IF list.mounted
       THEN OutlineRendered(msg', "finish", TRUE)
       ELSE UNCHANGED <<view, outline, editTeamCount, log>>
    /\ UNCHANGED list
    /\ OutlineFrame

\* The message renders again with the same content and streaming flag.
Rerender ==
    /\ list.mounted
    /\ outline.mounted
    /\ log.calls < MaxCalls
    /\ OutlineRendered(msg, "rerender", FALSE)
    /\ UNCHANGED <<msg, list>>
    /\ OutlineFrame

OutlineNext == ListMount \/ ListUnmount \/ Chunk \/ Finish \/ Rerender

OutlineSpec == OutlineInit /\ [][OutlineNext]_vars

---------------------------------------------------------------------------
(* One render of MessageListItem for any message record the store can hold *)

Roles(agent) == IF agent = "untagged" THEN {"user", "assistant"} ELSE {"assistant"}
Reasonings(agent) == IF agent = "planner" THEN {<<>>, <<"r">>} ELSE {<<>>}

RenderInit ==
    /\ DecoderIdle
    /\ \E a \in Agents, d \in DocNames :
         \E c \in 0..Len(Doc(d)), r \in Roles(a), s \in BOOLEAN, t \in Reasonings(a) :
           msg = Message(r, a, d, c, s, t)
    /\ researchIds \in {{}, {"m"}}
    /\ openResearchId = NoId
    /\ editTeamCount = 0
    /\ view = NoView
    /\ outline = OutlineUnmounted
    /\ thought = ThoughtUnmounted
    /\ list = ListIdle
    /\ log = NoLog
    /\ planCard = PlanIdle

\* The reasoning panel PlanCard mounts when the message has reasoning content.
PlanThought(m) ==
    IF m.agent = "planner" /\ m.reasoningContent # <<>>
    THEN ThoughtCommit([ThoughtUnmounted EXCEPT !.mounted = TRUE,
                                               !.hasMainContent = HasMainContent(m)],
                       0).th
    ELSE ThoughtUnmounted

\* The list item of the message renders for the first time and its effects run.
RenderItem ==
    /\ view = NoView
    /\ OutlineRendered(msg, "render", FALSE)
    /\ thought' = IF view'.kind = "li" THEN PlanThought(msg) ELSE ThoughtUnmounted
    /\ UNCHANGED <<decVars, msg, researchIds, openResearchId, list, planCard>>

RenderNext == RenderItem

RenderSpec == RenderInit /\ [][RenderNext]_vars

---------------------------------------------------------------------------
(* ResearchCard (page.tsx lines 317-378) and the toggle of MessageListView *)

MaxClicks == 4

ResearchSessions == {"A", "B", "C"}

\* handleOpen calling openResearch whatever session is open.
handleOpen_AlwaysOpen(researchId) == openResearch(researchId)

\* handleOpen of the card of session researchId: the card is rendered with the
\* store's openResearchId.
handleOpen(researchId) ==
    IF openResearchId = researchId THEN closeResearch ELSE openResearch(researchId)

\* handleToggleResearch: a timer of 500 ms is set; the function it returns is
\* dropped by the caller.
handleToggleResearch == list' = [list EXCEPT !.timers = @ + 1]

\* The label of the card's button.
ButtonLabel(researchId) == IF researchId # openResearchId THEN "open" ELSE "close"

ResearchInit ==
    /\ DecoderIdle
    /\ msg = NoMsg
    /\ researchIds = ResearchSessions
    /\ openResearchId \in ResearchSessions \cup {NoId}
    /\ editTeamCount = 0
    /\ view = NoView
    /\ outline = OutlineUnmounted
    /\ thought = ThoughtUnmounted
    /\ list = [ListIdle EXCEPT !.mounted = TRUE]
    /\ log = NoLog
    /\ planCard = PlanIdle

ResearchFrame ==
    UNCHANGED <<decVars, msg, researchIds, editTeamCount, view, outline, thought, planCard>>

\* The user clicks the button of the card of a session.
ToggleResearch ==
    /\ list.mounted
    /\ log.clicks < MaxClicks
    /\ \E id \in researchIds :
         /\ handleOpen(id)
         /\ log' = [log EXCEPT !.act = "click", !.clicks = @ + 1, !.clicked = id,
                               !.before = openResearchId]
    /\ handleToggleResearch
    /\ ResearchFrame

\* A timer set by a toggle runs: it scrolls if the scroll container is there.
TimerFires ==
    /\ list.timers > 0
    /\ list' = [list EXCEPT !.timers = @ - 1,
                            !.scrolls = @ + (IF list.mounted THEN 1 ELSE 0)]
    /\ log' = Logged(log, "timer")
    /\ UNCHANGED openResearchId
    /\ ResearchFrame

\* The message list is torn down; nothing clears the timers.
ResearchListUnmount ==
    /\ list.mounted
    /\ list' = [list EXCEPT !.mounted = FALSE]
    /\ log' = Logged(log, "unmount")
    /\ UNCHANGED openResearchId
    /\ ResearchFrame

ResearchNext == ToggleResearch \/ TimerFires \/ ResearchListUnmount

ResearchSpec == ResearchInit /\ [][ResearchNext]_vars

---------------------------------------------------------------------------
(* PlanCard (page.tsx lines 490-623): its option buttons and their clicks *)

MaxPlanClicks == 2

\* The contents a planner message streams.
PlanDocs == {"a", "null"}

Accept == Option("Start research", "accepted")
EditPlan == Option("Edit plan", "edit_plan")

Interrupt(options) == [present |-> TRUE, hasOptions |-> TRUE, options |-> options]
InterruptWithoutOptions == [present |-> TRUE, hasOptions |-> FALSE, options |-> <<>>]
Interrupts ==
    {NoInterrupt, InterruptWithoutOptions}
        \cup {Interrupt(o) : o \in {<<>>, <<Accept>>, <<EditPlan>>, <<EditPlan, Accept>>}}

GREETINGS == <<"Cool", "Sounds great", "Looks good", "Great", "Awesome">>
Endings == <<"Let's get started.", "Let's start.">>

\* The buttons drawn without the test of message.isStreaming.
PlanButtons_WhileStreaming(v, m, interrupt) ==
    IF /\ v.kind = "li" /\ v.card = "plan"
       /\ HasMainContent(m)
       /\ interrupt.present /\ interrupt.hasOptions /\ Len(interrupt.options) > 0
    THEN interrupt.options
    ELSE <<>>

\* The buttons of the card footer: one per option, inside the plan that shows
\* with main content, when
\* !message.isStreaming && interruptMessage?.options?.length.
PlanButtons(v, m, interrupt) ==
    IF /\ v.kind = "li" /\ v.card = "plan"
       /\ HasMainContent(m)
       /\ ~m.isStreaming
       /\ interrupt.present /\ interrupt.hasOptions /\ Len(interrupt.options) > 0
    THEN interrupt.options
    ELSE <<>>

\* handleAccept: onSendMessage, if given, gets a greeting g with ending e.
handleAccept(p, g, e) ==
    IF p.onSendMessage
    THEN [p EXCEPT !.sends = @ + 1,
                   !.sent = Sent(<<GREETINGS[g], "! ", Endings[e]>>, "accepted")]
    ELSE p

\* The click handler forwarding every option to onFeedback.
onClick_AlwaysFeedback(p, option, g, e) ==
    IF p.onFeedback
    THEN [p EXCEPT !.feedbacks = @ + 1, !.feedback = option]
    ELSE p

\* onClick of the button of an option.
onClick(p, option, g, e) ==
    IF option.value = "accepted" THEN handleAccept(p, g, e)
    ELSE IF p.onFeedback
    THEN [p EXCEPT !.feedbacks = @ + 1, !.feedback = option]
    ELSE p

\* MessageListItem renders the planner message m with the props in p.
PlanRendered(m, p, act) ==
    LET Commit(v) ==
            /\ view' = v
            /\ planCard' = [p EXCEPT !.mounted = TRUE,
                                     !.buttons = PlanButtons(v, m, p.interrupt)]
    IN  /\ Commit(MessageListItem(m, researchIds))
        /\ log' = Logged(log, act)

PlanInit ==
    /\ DecoderIdle
    /\ \E d \in PlanDocs :
         \/ \E c \in 0..Len(Doc(d)) : msg = Message("assistant", "planner", d, c, TRUE, <<>>)
         \/ msg = Message("assistant", "planner", d, Len(Doc(d)), FALSE, <<>>)
    /\ researchIds = {}
    /\ openResearchId = NoId
    /\ editTeamCount = 0
    /\ view = NoView
    /\ outline = OutlineUnmounted
    /\ thought = ThoughtUnmounted
    /\ list = ListIdle
    /\ log = NoLog
    /\ \E s \in BOOLEAN, f \in BOOLEAN :
         planCard = [PlanIdle EXCEPT !.onSendMessage = s, !.onFeedback = f]

PlanFrame ==
    UNCHANGED <<decVars, researchIds, openResearchId, editTeamCount, outline, thought, list>>

\* The card renders for the first time.
PlanMount ==
    /\ ~planCard.mounted
    /\ PlanRendered(msg, planCard, "mount")
    /\ UNCHANGED msg
    /\ PlanFrame

\* The store appends a chunk to the streaming planner message.
PlanChunk ==
    /\ planCard.mounted
    /\ msg.isStreaming
    /\ \E c \in (msg.cut + 1)..Len(Doc(msg.doc)) :
         /\ msg' = [msg EXCEPT !.cut = c]
         /\ PlanRendered(msg', planCard, "chunk")
    /\ PlanFrame

\* The store clears the streaming flag of the planner message.
PlanFinish ==
    /\ planCard.mounted
    /\ msg.isStreaming
    /\ msg' = [msg EXCEPT !.isStreaming = FALSE]
    /\ PlanRendered(msg', planCard, "finish")
    /\ PlanFrame

\* The list passes another interrupt message or another waitForFeedback.
InterruptChanges ==
    /\ planCard.mounted
    /\ \E i \in Interrupts, w \in BOOLEAN :
         /\ <<i, w>> # <<planCard.interrupt, planCard.waitForFeedback>>
         /\ PlanRendered(msg, [planCard EXCEPT !.interrupt = i, !.waitForFeedback = w],
                         "interrupt")
    /\ UNCHANGED msg
    /\ PlanFrame

\* The user clicks one of the buttons; a disabled button takes no click.
ClickOption ==
    /\ planCard.waitForFeedback
    /\ log.clicks < MaxPlanClicks
    /\ \E n \in 1..Len(planCard.buttons), g \in 1..Len(GREETINGS), e \in 1..Len(Endings) :
         planCard' = [onClick(planCard, planCard.buttons[n], g, e)
                        EXCEPT !.clicked = planCard.buttons[n]]
    /\ log' = [log EXCEPT !.act = "option", !.clicks = @ + 1]
    /\ UNCHANGED <<msg, view>>
    /\ PlanFrame

PlanNext == PlanMount \/ PlanChunk \/ PlanFinish \/ InterruptChanges \/ ClickOption

PlanSpec == PlanInit /\ [][PlanNext]_vars

---------------------------------------------------------------------------
(* Claims about the decoder *)

Decoded == result # NoResult

\* C1: parseJSON never throws, and for every argument whose text the
\* best-effort parser cannot recover it returns exactly the caller's fallback.
C1_FallbackOnUnrecoverable ==
    Decoded =>
        /\ result.kind # "throw"
        /\ (~Falsy(json) /\ parse(StripFences(json.s)).threw)
               => (result.kind = "fallback" /\ result.v = fallback)

\* 'not json at all' with fallback {x: 1} decodes to {x: 1}.
C1_Witness ==
    /\ Decoded
    /\ json = StrArg(DocText)
    /\ fallback = JObj(<<[k |-> <<"x">>, v |-> JNum(<<"1">>)]>>)
    /\ result.kind = "fallback"
    /\ result.v = fallback

\* A document that is one JSON object, cut after its first character or later,
\* with nothing around it.
Truncation ==
    /\ Decoded
    /\ json.kind = "str"
    /\ origin.doc \in ObjectDocs
    /\ origin.cut >= 1
    /\ origin.pre = <<>>
    /\ origin.suf = <<>>

\* Where the text of a truncation ends for the parser: before the whitespace
\* that ends the cut and before one fence (and the whitespace in front of it)
\* that then ends it.
ClosedAt(doc, cut) ==
    LET e == WsEndBack(doc, cut) IN
    IF e >= 3 /\ SubSeq(doc, e - 2, e) = FenceBare THEN WsEndBack(doc, e - 3) ELSE e

\* C2 as claimed: every truncation of a JSON object document decodes, without
\* a throw or the fallback, to the structure read up to the cut, an
\* unterminated string being closed at the cut.
C2_ClosedAtTheCut ==
    Truncation =>
        /\ result.kind = "parsed"
        /\ result.v = parse(SubSeq(Doc(origin.doc), 1, origin.cut)).v

\* C2 as amended: every truncation of a JSON object document decodes, without
\* a throw or the fallback, to the structure read up to the end of the
\* trimmed text with one trailing fence removed.
C2_ClosedAtTheTrimmedCut ==
    Truncation =>
        LET want == parse(SubSeq(Doc(origin.doc), 1, ClosedAt(Doc(origin.doc), origin.cut)))
        IN  /\ result.kind = "parsed"
            /\ ~want.threw
            /\ result.v.t = "obj"
            /\ result.v = want.v

\* {"title":"Plan","steps":[{"title":"Step 1" decodes to title "Plan" and one step.
C2_Witness ==
    /\ Truncation
    /\ origin.doc = "plan"
    /\ origin.cut = Len(DocPlan) - 3
    /\ result.kind = "parsed"
    /\ Get(result.v, <<"t", "i", "t", "l", "e">>) = JStr(<<"P", "l", "a", "n">>)
    /\ Len(Get(result.v, <<"s", "t", "e", "p", "s">>).items) = 1

\* The fence removal the claim describes: the first leading marker that
\* matches, once, and one trailing fence.
StripOnce(s) ==
    LET lead == IF StartsWith(s, 1, FenceJson) THEN ReplaceLeading(s, FenceJson)
                ELSE IF StartsWith(s, 1, FenceJs) THEN ReplaceLeading(s, FenceJs)
                ELSE IF StartsWith(s, 1, FenceTs) THEN ReplaceLeading(s, FenceTs)
                ELSE IF StartsWith(s, 1, FencePlaintext) THEN ReplaceLeading(s, FencePlaintext)
                ELSE ReplaceLeading(s, FenceBare)
    IN  ReplaceTrailing(lead)

\* C3: parseJSON removes at most one leading fence marker and one trailing
\* fence from the trimmed text; any further fence text reaches the parser
\* unchanged.
C3_OneLeadingFence ==
    (Decoded /\ result.parsed) =>
        /\ LeadingRemoved(Trim(json.s), 1) <= 1
        /\ result.raw = StripOnce(Trim(json.s))

\* C4: a null, undefined or empty argument returns the fallback itself, and
\* the parser is not called.
C4_FallbackWithoutParse ==
    (Decoded /\ Falsy(json)) =>
        /\ result.kind = "fallback"
        /\ result.v = fallback
        /\ ~result.parsed

C4_Witness ==
    /\ Decoded
    /\ json = StrArg(<<>>)
    /\ result.kind = "fallback"
    /\ fallback = JNull

---------------------------------------------------------------------------
(* Claims about the renderer *)

\* C5: rendering the list item of any message record completes: it yields a
\* card, a bubble or null, never an exception.
C5_RenderNeverThrows == view.kind # "throw"

\* The decoded content is a flat mapping of string keys to strings.
FlatMapping(v) ==
    /\ v.t = "obj"
    /\ \A n \in 1..Len(v.ents) : v.ents[n].v.t = "str"

\* C10: the evaluator card has exactly one block per key of the decoded
\* mapping, in the order the keys appear in the content.
C10_BlocksInContentOrder ==
    LET decoded == parseJSON(StrArg(Content(msg)), EmptyObject).v IN
    (view.kind = "li" /\ view.card = "evaluator" /\ FlatMapping(decoded))
        => view.blocks = Keys(decoded)

\* The message is the first of a research session.
StartOfResearch == msg.id \in researchIds

\* C11: a message whose id is in the set of research-session start ids renders
\* as a list item holding the research session card, whatever its agent tag
\* and whether or not its content is empty.
C11_ResearchCardOverrides ==
    (view.kind \in {"li", "null"} /\ StartOfResearch)
        => (view.kind = "li" /\ view.card = "research")

\* The shapes that need main content: the bubble of a user or an untagged or
\* otherwise listed message, and the planner, outline, editor_team and
\* evaluator cards.
NeedsMainContent == msg.agent # "podcast" /\ ~StartOfResearch

\* C12: a message with empty content renders as null when its shape needs
\* main content; only a podcast message or a research-session start yields a
\* list item with empty content.
C12_NullOnEmptyContent ==
    (view # NoView /\ Content(msg) = <<>>)
        => /\ NeedsMainContent => view = NullView
           /\ view.kind = "li" => (msg.agent = "podcast" \/ StartOfResearch)

\* C15: a render with its effects leaves the messages, the research ids and
\* the open session of the store as they were, and changes the edit-team
\* count only when the item holds the outline card.
C15_RenderWritesOnlyEditTeamCount ==
    [][ /\ msg' = msg
        /\ researchIds' = researchIds
        /\ openResearchId' = openResearchId
        /\ (editTeamCount' # editTeamCount) => view'.card = "outline" ]_vars

\* A completed outline message was rendered and its effect wrote the count.
C15_Witness ==
    /\ view.kind = "li"
    /\ view.card = "outline"
    /\ log.act = "render"
    /\ editTeamCount = 3

---------------------------------------------------------------------------
(* Claims about the reasoning panel *)

\* C6: the first change of hasMainContent from false to true forces the panel
\* closed; the panel is forced closed at most once in its lifetime; and once
\* that has happened only a click of the user closes the panel, whatever
\* hasMainContent does.
C6_AutoCollapseOnce ==
    /\ [](log.collapses <= 1)
    /\ [][ /\ (thought.mounted /\ ~thought.hasMainContent /\ thought'.hasMainContent
                  /\ log.collapses = 0)
              => (~thought'.isOpen /\ log'.collapses = 1)
           /\ (log.collapses = 1 /\ thought.isOpen /\ ~thought'.isOpen)
              => log'.act = "toggle" ]_vars

\* The panel was closed by the effect, reopened by the user, and stays open
\* over a later change of hasMainContent.
C6_Witness ==
    /\ log.collapses = 1
    /\ log.clicks >= 1
    /\ log.transitions >= 3
    /\ log.act = "change"
    /\ thought.hasMainContent
    /\ thought.isOpen

---------------------------------------------------------------------------
(* Claims about the outline write-back *)

\* C7: when the streaming flag of a rendered outline message goes from true to
\* false and its decoded content has a sections array of length n, the
\* edit-team count is set to n; a later render of the message with the same
\* content and flag does not call setEditTeamCount.
C7_WriteBackOnCompletion ==
    [][ /\ (msg.isStreaming /\ ~msg'.isStreaming /\ outline'.mounted
               /\ Prop(OutlineOf(msg'), Sections).t = "arr")
           => (editTeamCount' = SectionsLength(msg') /\ log'.calls = log.calls + 1)
        /\ (log'.act = "rerender") => (log'.calls = log.calls /\ editTeamCount' = editTeamCount)
      ]_vars

\* An outline with three sections completed, wrote 3, and rendered again.
C7_Witness ==
    /\ msg.doc = "outline"
    /\ ~msg.isStreaming
    /\ log.act = "rerender"
    /\ log.transitions = 1
    /\ log.calls = 1
    /\ editTeamCount = 3

\* C8: setEditTeamCount is called at most once per completion of the
\* streaming of the message while it is rendered: never while it streams, and
\* never for a message that completed no streaming while rendered.
C8_AtMostOncePerCompletion ==
    /\ log.calls <= log.transitions
    /\ (msg.isStreaming => log.calls = 0)

---------------------------------------------------------------------------
(* Claims about the research cards *)

\* C9: at most one research card is the open one; a click on the card of
\* session B while another session is open makes B the open session, and a
\* click on the card of the open session leaves no session open.
C9_SingleOpen ==
    /\ [](Cardinality({id \in researchIds : ButtonLabel(id) = "close"}) <= 1)
    /\ [][ \A id \in researchIds :
             (log'.clicks = log.clicks + 1 /\ log'.clicked = id)
                 => openResearchId' = (IF openResearchId = id THEN NoId ELSE id) ]_vars

\* Session B was clicked while session A was open, and B is now the open one.
C9_Witness ==
    /\ log.before = "A"
    /\ log.clicked = "B"
    /\ log.act = "click"
    /\ openResearchId = "B"

\* C16: once the message list is torn down no timer set by
\* handleToggleResearch is pending, so none runs after the teardown.
C16_NoTimerAfterTeardown == ~list.mounted => list.timers = 0

---------------------------------------------------------------------------
(* Claims about the plan card *)

\* C13: the plan card has option buttons only if the planner message is not
\* streaming and the attached interrupt message has at least one option;
\* while the message streams the card has no button.
C13_ButtonsOnlyWhenSettled ==
    /\ planCard.buttons # <<>>
          => /\ ~msg.isStreaming
             /\ planCard.interrupt.present
             /\ Len(planCard.interrupt.options) >= 1
    /\ msg.isStreaming => planCard.buttons = <<>>

\* The message streams with main content and an interrupt with options is
\* attached: the card is drawn without buttons.
C13_Witness ==
    /\ planCard.mounted
    /\ view.card = "plan"
    /\ msg.isStreaming
    /\ HasMainContent(msg)
    /\ Len(planCard.interrupt.options) >= 1
    /\ planCard.buttons = <<>>

\* The texts handleAccept can send.
AffirmativeTexts ==
    { <<GREETINGS[g], "! ", Endings[e]>> : g \in 1..Len(GREETINGS), e \in 1..Len(Endings) }

\* C14: a click on the option whose value is "accepted" calls onSendMessage
\* once, with an affirmative text and interruptFeedback "accepted", and does
\* not call onFeedback; a click on any other option calls onFeedback once with
\* that option and does not call onSendMessage.  A callback that was not
\* given cannot be called.
C14_ClickRouting ==
    [][ (log'.act = "option" /\ log'.clicks = log.clicks + 1)
          => IF planCard'.clicked.value = "accepted"
             THEN /\ planCard'.feedbacks = planCard.feedbacks
                  /\ planCard.onSendMessage
                        => /\ planCard'.sends = planCard.sends + 1
                           /\ planCard'.sent.text \in AffirmativeTexts
                           /\ planCard'.sent.interruptFeedback = "accepted"
             ELSE /\ planCard'.sends = planCard.sends
                  /\ planCard.onFeedback
                        => /\ planCard'.feedbacks = planCard.feedbacks + 1
                           /\ planCard'.feedback = planCard'.clicked ]_vars

\* Both kinds of option were clicked with both callbacks given: one message
\* was sent and one option was forwarded.
C14_Witness ==
    /\ log.act = "option"
    /\ planCard.onSendMessage /\ planCard.onFeedback
    /\ planCard.sends = 1
    /\ planCard.sent.interruptFeedback = "accepted"
    /\ planCard.feedbacks = 1
    /\ planCard.feedback = EditPlan

===========================================================================
